---- MODULE Spec2Model ----
(***************************************************************************)
(* The control core of kitty/boss.py: the Boss thread's readiness loop     *)
(* (run), the action queue with its wakeup pipe, the signal pipe, the      *)
(* write buffer towards the child and the shutdown flag.                   *)
(*                                                                         *)
(* One control thread runs run(); any number of producer threads call      *)
(* queue_action (a queue put followed by a pipe write, two separate        *)
(* steps); the environment delivers signals, child output and decides how  *)
(* many bytes each os.write to the child accepts.                          *)
(***************************************************************************)
EXTENDS Integers, Sequences, FiniteSets, TLC

\* ------------------------------------------------------------------ bounds
\* number of events from outside the control thread: actions submitted by
\* producers, times the child descriptor becomes readable, signals delivered
MaxEvents == 3
\* number of change_default_color calls, over both sessions
MaxColorCalls == 3
\* number of mark_dirtied callbacks one stream.feed may make
MaxMarks == 2
\* capacity of the wakeup pipe, in markers
PipeCap == 1026

\* --------------------------------------------------------------- constants
\* os.read(self.read_wakeup_fd, 1024)
WakeupReadSize == 1024
\* os.read(self.signal_fd, 1024)
SignalReadSize == 1024
SIGINT == 2
SIGTERM == 15
\* a signal that is neither SIGINT nor SIGTERM
DeliverableSignals == {SIGINT, SIGTERM, 28}

\* the byte strings producers hand to write_to_child, the sizes to on_window_resize
WriteData == {<<"A", "B">>, <<"C">>}
ResizeArgs == {<<100, 40>>}
\* two Boss objects in one process
Sessions == {"A", "B"}
\* the which and value arguments of change_default_color; "-" is a slot not in a dict
Slots == {"fg", "bg"}
ColorValues == {"c1", "c2"}
EmptyDict == [w \in Slots |-> "-"]
\* the new_title argument of title_changed
Titles == {"t1", "t2", "t3", "t4"}
\* the opts argument of apply_opts
OptsValues == {"o1", "o2"}

VARIABLES
    pc,               \* where the control thread is in run()
    ready,            \* readers returned by select, not yet serviced
    wready,           \* writers returned by select is non-empty
    attempt,          \* os.write calls made so far by the running write_ready
    shutting_down,
    write_buf,
    action_queue,
    wakeup_pipe,      \* markers pending in the wakeup pipe
    signal_pipe,      \* signal numbers pending in the signal pipe
    child_pending,    \* what a read of child_fd would produce
    in_wakeup,        \* producer threads between action_queue.put and wakeup
    next_id,
    close_requested,  \* glfwSetWindowShouldClose(window, True) was called
    post_empty,       \* number of glfwPostEmptyEvent calls
    resizes,          \* arguments of the char_grid.resize_screen calls
    flush_count,      \* number of update_screen executions
    fed,              \* number of stream.feed calls
    \* history
    child_recv,       \* bytes the child descriptor accepted
    enq_log,          \* bytes given to queue_write executions
    put_log,          \* ids in the order of action_queue.put
    executed,         \* ids in the order on_wakeup executed them
    write_log,        \* the os.write calls that accepted bytes
    dirty_batches,    \* mark_dirtied calls made while no update_screen was pending
    wakeup_raised,    \* some wakeup() call raised
    left_after_drain, \* markers left in the pipe by the last drain
    started_empty,    \* write_buf was empty at the last select
    registered,       \* the last select was given the writers list
    iter_writes,      \* os.write calls since the last select
    fresh,            \* bytes at the tail of write_buf enqueued since the last select
    wrote_fresh,      \* such a byte was written since the last select
    shutdown_causes,  \* the callers of shutdown(), in order
    events,           \* events from outside the control thread so far
    closed,           \* os.close calls made so far, per descriptor
    signal_spurious,  \* the signal descriptor is reported readable with nothing to read
    sig_read,         \* what each os.read of signal_received returned, in order
    fed_log,          \* the data of the stream.feed calls, in order
    opts,             \* self.opts
    applied_opts,     \* the options each apply_opts_to_screen execution applied
    opts_log,         \* the arguments of the apply_opts calls, in order
    pending_title_change,
    window_title,     \* the last argument of glfwSetWindowTitle
    render_pc,        \* where the thread that calls render() is in it
    last_title,       \* the argument of the last title_changed call
    render_completed, \* a render() call has returned since the last title_changed
    class_pcc,        \* Boss.pending_color_changes, the dict made in the class body
    has_inst,         \* per session: the instance has its own pending_color_changes
    inst_pcc,         \* per session: that instance attribute
    color_queue,      \* per session: change_colors actions queued and not yet executed
    grid_colors,      \* per session: the colors char_grid.change_colors has set
    applied_colors,   \* per session: every (slot, value) given to char_grid.change_colors
    requested,        \* per session: every (slot, value) given to change_default_color
    last_req,         \* per session: the last value requested for each slot
    color_calls       \* change_default_color calls so far

ctl == <<pc, ready, wready, attempt>>
sess == <<shutting_down, write_buf, action_queue>>
fds == <<wakeup_pipe, signal_pipe, child_pending>>
prod == <<in_wakeup, next_id>>
ext == <<close_requested, post_empty, resizes, flush_count, fed>>
hist_io == <<child_recv, enq_log, write_log>>
hist_act == <<put_log, executed, dirty_batches>>
hist_pipe == <<wakeup_raised, left_after_drain>>
hist_iter == <<started_empty, registered, iter_writes, fresh, wrote_fresh>>
hist_env == <<shutdown_causes, events>>
res == <<closed>>
spur == <<signal_spurious>>
hist_read == <<sig_read, fed_log>>
optv == <<opts, applied_opts, opts_log>>
titlev == <<pending_title_change, window_title, render_pc, last_title, render_completed>>
colorv == <<class_pcc, has_inst, inst_pcc, color_queue, grid_colors, applied_colors,
            requested, last_req, color_calls>>

vars == <<ctl, sess, fds, prod, ext, hist_io, hist_act, hist_pipe, hist_iter, hist_env,
          res, spur, hist_read, optv, titlev, colorv>>

Min(a, b) == IF a < b THEN a ELSE b

Take(s, n) == SubSeq(s, 1, Min(n, Len(s)))
Drop(s, n) == SubSeq(s, Min(n, Len(s)) + 1, Len(s))

\* ----------------------------------------------------------- pure helpers

\* queue_write: self.write_buf = memoryview(self.write_buf.tobytes() + data)
queue_write(buf, data) == buf \o data

\* a slice that starts one byte too far
WriteRestOffByOne(buf, n) == SubSeq(buf, n + 2, Len(buf))

\* write_ready: self.write_buf = self.write_buf[n:]
WriteRest(buf, n) == SubSeq(buf, n + 1, Len(buf))

\* on_wakeup: os.read(self.read_wakeup_fd, 1024) leaves what exceeds the read size
DrainWakeup(pipe) == pipe - Min(pipe, WakeupReadSize)

\* a drain loop that does not look at shutting_down
KeepDrainingAlways(sd) == TRUE

\* on_wakeup: the loop condition, while not self.shutting_down
KeepDraining(sd) == ~sd

\* a queue that hands out the newest entry
NextActionNewest(q) == q[Len(q)]

\* on_wakeup: action_queue.get_nowait() takes the oldest entry
NextAction(q) == Head(q)
RestActions(q) == Tail(q)

\* a wait that always asks for write readiness
WritersArgAlways(buf) == TRUE

\* run: select.select(self.readers, self.writers if self.write_buf else [], [])
WritersArg(buf) == buf # <<>>

\* __init__: the descriptors the session holds: both ends of the wakeup pipe, the
\* child descriptor, the read end of the signal pipe
OwnedFds == {"read_wakeup_fd", "write_wakeup_fd", "child_fd", "signal_fd"}

\* a signal_received that shuts down on any signal number
IsTerminationAny(data) == data # <<>>

\* signal_received: signal.SIGINT in signals or signal.SIGTERM in signals
IsTermination(data) == \E i \in 1..Len(data) : data[i] \in {SIGINT, SIGTERM}

PendingFlushes(q) == Cardinality({i \in 1..Len(q) : q[i].fn = "update_screen"})

Init ==
    /\ pc = "select"
    /\ ready = <<>>
    /\ wready = FALSE
    /\ attempt = 0
    /\ shutting_down = FALSE
    /\ write_buf = <<>>
    /\ action_queue = <<>>
    /\ wakeup_pipe = 0
    /\ signal_pipe = <<>>
    /\ child_pending = "none"
    /\ in_wakeup = 0
    /\ next_id = 1
    /\ close_requested = FALSE
    /\ post_empty = 0
    /\ resizes = <<>>
    /\ flush_count = 0
    /\ fed = 0
    /\ child_recv = <<>>
    /\ enq_log = <<>>
    /\ put_log = <<>>
    /\ executed = <<>>
    /\ write_log = <<>>
    /\ dirty_batches = 0
    /\ wakeup_raised = FALSE
    /\ left_after_drain = 0
    /\ started_empty = TRUE
    /\ registered = FALSE
    /\ iter_writes = 0
    /\ fresh = 0
    /\ wrote_fresh = FALSE
    /\ shutdown_causes = <<>>
    /\ events = 0
    /\ closed = [fd \in OwnedFds |-> 0]
    /\ signal_spurious = FALSE
    /\ sig_read = <<>>
    /\ fed_log = <<>>
    /\ opts = "o0"
    /\ applied_opts = <<>>
    /\ opts_log = <<>>
    /\ pending_title_change = "None"
    /\ window_title = "initial"
    /\ render_pc = "idle"
    /\ last_title = "None"
    /\ render_completed = FALSE
    /\ class_pcc = EmptyDict
    /\ has_inst = [s \in Sessions |-> FALSE]
    /\ inst_pcc = [s \in Sessions |-> EmptyDict]
    /\ color_queue = [s \in Sessions |-> 0]
    /\ grid_colors = [s \in Sessions |-> EmptyDict]
    /\ applied_colors = [s \in Sessions |-> {}]
    /\ requested = [s \in Sessions |-> {}]
    /\ last_req = [s \in Sessions |-> EmptyDict]
    /\ color_calls = 0


\* ------------------------------------------------------- producer threads

\* a queue_action that leaves out the pipe write
WakeupWriteNothing(pipe) == pipe

\* wakeup: os.write(self.write_wakeup_fd, b'1') on the O_NONBLOCK pipe; a full
\* pipe makes the write raise BlockingIOError
WakeupFits(pipe) == pipe < PipeCap
WakeupWrite(pipe) == IF WakeupFits(pipe) THEN pipe + 1 ELSE pipe

\* queue_action, first statement: self.action_queue.put((func, args))
Put(fn, args) ==
    /\ action_queue' = Append(action_queue, [id |-> next_id, fn |-> fn, args |-> args])
    /\ put_log' = Append(put_log, next_id)
    /\ next_id' = next_id + 1
    /\ in_wakeup' = in_wakeup + 1
    /\ events' = events + 1

\* on_window_resize(window, w, h) called on a producer thread
OnWindowResize ==
    /\ events < MaxEvents
    /\ \E a \in ResizeArgs : Put("resize_screen", a)
    /\ UNCHANGED <<ctl, shutting_down, write_buf, fds, ext, hist_io, executed,
                   dirty_batches, hist_pipe, hist_iter, shutdown_causes,
                   res, spur, hist_read, optv, titlev, colorv>>

\* apply_opts(opts) called on a producer thread: the assignment to self.opts is made
\* there, the queued action carries no argument
ApplyOpts ==
    /\ events < MaxEvents
    /\ \E o \in OptsValues :
        /\ opts' = o
        /\ opts_log' = Append(opts_log, o)
    /\ Put("apply_opts_to_screen", <<>>)
    /\ applied_opts' = applied_opts
    /\ UNCHANGED <<ctl, shutting_down, write_buf, fds, ext, hist_io, executed,
                   dirty_batches, hist_pipe, hist_iter, shutdown_causes,
                   res, spur, hist_read, titlev, colorv>>

\* write_to_child(data) with non-empty data called on a producer thread
WriteToChild ==
    /\ events < MaxEvents
    /\ \E d \in WriteData : Put("queue_write", d)
    /\ UNCHANGED <<ctl, shutting_down, write_buf, fds, ext, hist_io, executed,
                   dirty_batches, hist_pipe, hist_iter, shutdown_causes,
                   res, spur, hist_read, optv, titlev, colorv>>

\* queue_action, second statement: self.wakeup()
ProducerWakeup ==
    /\ in_wakeup > 0
    /\ in_wakeup' = in_wakeup - 1
    /\ wakeup_pipe' = WakeupWrite(wakeup_pipe)
    /\ wakeup_raised' = (wakeup_raised \/ ~WakeupFits(wakeup_pipe))
    /\ UNCHANGED <<ctl, sess, signal_pipe, child_pending, next_id, ext, hist_io,
                   hist_act, left_after_drain, hist_iter, hist_env,
                   res, spur, hist_read, optv, titlev, colorv>>

\* wakeup() called on its own by another thread
WakeupCall ==
    /\ wakeup_pipe' = WakeupWrite(wakeup_pipe)
    /\ wakeup_raised' = (wakeup_raised \/ ~WakeupFits(wakeup_pipe))
    /\ UNCHANGED <<ctl, sess, signal_pipe, child_pending, prod, ext, hist_io,
                   hist_act, left_after_drain, hist_iter, hist_env,
                   res, spur, hist_read, optv, titlev, colorv>>

\* ------------------------------------------------------------ environment

\* what a successful non-empty read of the child descriptor can return
ChildChunks == {"data", "data2"}

\* the child writes output, exits, or its descriptor reports an error; "block" is a
\* readiness report that a read then answers with BlockingIOError
ChildOutputOf(results) ==
    /\ child_pending = "none"
    /\ events < MaxEvents
    /\ child_pending' \in results
    /\ events' = events + 1
    /\ UNCHANGED <<ctl, sess, wakeup_pipe, signal_pipe, prod, ext, hist_io, hist_act,
                   hist_pipe, hist_iter, shutdown_causes,
                   res, spur, hist_read, optv, titlev, colorv>>

\* the child's output seen as one kind of data
ChildOutput == ChildOutputOf({"data", "eof", "error", "block"})

\* the child's output without the failures: data or end of file
ChildOutputPlain == ChildOutputOf({"data", "eof"})

\* the child's output with two different chunks of data
ChildOutputAny == ChildOutputOf(ChildChunks \cup {"eof", "error", "block"})

\* handle_unix_signals: the handler does nothing, set_wakeup_fd makes the
\* interpreter write the signal number to the signal pipe
SignalDelivered(s) ==
    /\ events < MaxEvents
    /\ signal_pipe' = Append(signal_pipe, s)
    /\ events' = events + 1
    /\ UNCHANGED <<ctl, sess, wakeup_pipe, child_pending, prod, ext, hist_io, hist_act,
                   hist_pipe, hist_iter, shutdown_causes,
                   res, spur, hist_read, optv, titlev, colorv>>

\* select reports the signal descriptor readable although the pipe holds nothing;
\* the read then answers with BlockingIOError
SignalSpurious ==
    /\ ~signal_spurious
    /\ signal_pipe = <<>>
    /\ events < MaxEvents
    /\ signal_spurious' = TRUE
    /\ events' = events + 1
    /\ UNCHANGED <<ctl, sess, fds, prod, ext, hist_io, hist_act, hist_pipe, hist_iter,
                   shutdown_causes, res, hist_read, optv, titlev,
                   colorv>>

\* ------------------------------------------------- title and render thread

\* title_changed(new_title), called by the screen on the control thread
TitleChanged ==
    /\ events < MaxEvents
    /\ \E t \in Titles :
        /\ pending_title_change' = t
        /\ last_title' = t
    /\ post_empty' = post_empty + 1
    /\ render_completed' = FALSE
    /\ events' = events + 1
    /\ UNCHANGED <<window_title, render_pc>>
    /\ UNCHANGED <<ctl, sess, fds, prod, close_requested, resizes, flush_count, fed,
                   hist_io, hist_act, hist_pipe, hist_iter, shutdown_causes,
                   res, spur, hist_read, optv, colorv>>

\* render, on the thread that owns the window: if self.pending_title_change is not None
RenderCheck ==
    /\ render_pc = "idle"
    /\ render_pc' = IF pending_title_change # "None" THEN "set" ELSE "idle"
    /\ render_completed' = IF pending_title_change # "None" THEN render_completed ELSE TRUE
    /\ UNCHANGED <<pending_title_change, window_title, last_title>>
    /\ UNCHANGED <<ctl, sess, fds, prod, ext, hist_io, hist_act, hist_pipe, hist_iter,
                   hist_env, res, spur, hist_read, optv, colorv>>

\* render: glfw.glfwSetWindowTitle(self.window, self.pending_title_change)
RenderSetTitle ==
    /\ render_pc = "set"
    /\ window_title' = pending_title_change
    /\ render_pc' = "reset"
    /\ UNCHANGED <<pending_title_change, last_title, render_completed>>
    /\ UNCHANGED <<ctl, sess, fds, prod, ext, hist_io, hist_act, hist_pipe, hist_iter,
                   hist_env, res, spur, hist_read, optv, colorv>>

\* render: self.pending_title_change = None, and the rest of render()
RenderReset ==
    /\ render_pc = "reset"
    /\ pending_title_change' = "None"
    /\ render_pc' = "idle"
    /\ render_completed' = TRUE
    /\ UNCHANGED <<window_title, last_title>>
    /\ UNCHANGED <<ctl, sess, fds, prod, ext, hist_io, hist_act, hist_pipe, hist_iter,
                   hist_env, res, spur, hist_read, optv, colorv>>

\* ---------------------------------------------------------------- palette

\* self.pending_color_changes read on session s: the instance attribute if one
\* was assigned, else the class attribute
Pending(s) == IF has_inst[s] THEN inst_pcc[s] ELSE class_pcc

\* the (slot, value) pairs of a dict
Items(d) == {<<w, d[w]>> : w \in {x \in Slots : d[x] # "-"}}

\* change_default_color(which, value) on session s: the item assignment goes to the
\* dict the attribute lookup finds, then queue_action(self.change_colors)
ChangeDefaultColor(s, which, value) ==
    /\ color_calls < MaxColorCalls
    /\ color_calls' = color_calls + 1
    /\ IF has_inst[s]
       THEN /\ inst_pcc' = [inst_pcc EXCEPT ![s][which] = value]
            /\ class_pcc' = class_pcc
       ELSE /\ class_pcc' = [class_pcc EXCEPT ![which] = value]
            /\ inst_pcc' = inst_pcc
    /\ color_queue' = [color_queue EXCEPT ![s] = @ + 1]
    /\ requested' = [requested EXCEPT ![s] = @ \cup {<<which, value>>}]
    /\ last_req' = [last_req EXCEPT ![s][which] = value]
    /\ UNCHANGED <<has_inst, grid_colors, applied_colors>>
    /\ UNCHANGED <<ctl, sess, fds, prod, ext, hist_io, hist_act, hist_pipe, hist_iter,
                   hist_env, res, spur, hist_read, optv, titlev>>

\* change_colors executed by the loop of session s
ChangeColors(s) ==
    /\ color_queue[s] > 0
    /\ color_queue' = [color_queue EXCEPT ![s] = @ - 1]
    /\ grid_colors' = [grid_colors EXCEPT ![s] =
                         [w \in Slots |-> IF Pending(s)[w] # "-" THEN Pending(s)[w] ELSE @[w]]]
    /\ applied_colors' = [applied_colors EXCEPT ![s] = @ \cup Items(Pending(s))]
    /\ inst_pcc' = [inst_pcc EXCEPT ![s] = EmptyDict]
    /\ has_inst' = [has_inst EXCEPT ![s] = TRUE]
    /\ UNCHANGED <<class_pcc, requested, last_req, color_calls>>
    /\ UNCHANGED <<ctl, sess, fds, prod, ext, hist_io, hist_act, hist_pipe, hist_iter,
                   hist_env, res, spur, hist_read, optv, titlev>>

\* --------------------------------------------------------- control thread

\* shutdown()
Shutdown(cause) ==
    /\ shutting_down' = TRUE
    /\ close_requested' = TRUE
    /\ post_empty' = post_empty + 1
    /\ shutdown_causes' = Append(shutdown_causes, cause)

NoShutdown == UNCHANGED <<shutting_down, close_requested, post_empty, shutdown_causes>>

IsReadable(fd) ==
    CASE fd = "child" -> child_pending # "none"
      [] fd = "signal" -> signal_pipe # <<>> \/ signal_spurious
      [] fd = "wakeup" -> wakeup_pipe > 0

\* self.readers = [self.child_fd, self.signal_fd, self.read_wakeup_fd]
Readers == <<"child", "signal", "wakeup">>

\* run: while not self.shutting_down
KeepRunning(sd) == ~sd

\* run: the readiness wait that returns the ready readers as the list rd; w is
\* whether the child descriptor is writable now
SelectIn(rd) ==
    /\ pc = "select"
    /\ KeepRunning(shutting_down)
    /\ \E w \in BOOLEAN :
        LET wr == WritersArg(write_buf) /\ w
        IN  /\ (rd # <<>> \/ wr)
            /\ ready' = rd
            /\ wready' = wr
    /\ pc' = "service"
    /\ started_empty' = (write_buf = <<>>)
    /\ registered' = WritersArg(write_buf)
    /\ iter_writes' = 0
    /\ fresh' = 0
    /\ wrote_fresh' = FALSE
    /\ UNCHANGED <<attempt, sess, fds, prod, ext, hist_io, hist_act, hist_pipe, hist_env,
                   res, spur, hist_read, optv, titlev, colorv>>

\* run: select.select reports the ready readers in the order of self.readers
Select == SelectIn(SelectSeq(Readers, IsReadable))

\* every order in which the readers can be listed
ReaderOrders ==
    {<<"child", "signal", "wakeup">>, <<"child", "wakeup", "signal">>,
     <<"signal", "child", "wakeup">>, <<"signal", "wakeup", "child">>,
     <<"wakeup", "child", "signal">>, <<"wakeup", "signal", "child">>}

\* the same wait with the ready readers serviced in any order
SelectAnyOrder ==
    /\ pc = "select"
    /\ \E rd \in {SelectSeq(o, IsReadable) : o \in ReaderOrders} : SelectIn(rd)

\* run: the loop condition fails and run() returns
LoopExit ==
    /\ pc = "select"
    /\ ~KeepRunning(shutting_down)
    /\ pc' = "stopped"
    /\ UNCHANGED <<ready, wready, attempt, sess, fds, prod, ext, hist_io, hist_act,
                   hist_pipe, hist_iter, hist_env, res, spur, hist_read,
                   optv, titlev, colorv>>

\* a read_ready without its first two lines
ReadGuardNever(sd) == FALSE

\* read_ready: if self.shutting_down: return
ReadGuard(sd) == sd

\* write_ready: if not self.shutting_down
WriteGuard(sd) == ~sd

\* os.read(self.child_fd, io.DEFAULT_BUFFER_SIZE): the bytes a successful read returns
ReadData(pending) ==
    CASE pending = "data" -> <<"x">>
      [] pending = "data2" -> <<"y", "z">>
      [] OTHER -> <<>>

\* a read_ready whose except clauses are in the other order: BlockingIOError is an
\* EnvironmentError, so a read that would block counts as a failed read
ReadOutcomeSwapped(pending) ==
    CASE pending \in ChildChunks -> "data"
      [] pending \in {"eof", "error", "block"} -> "empty"
      [] OTHER -> "return"

\* read_ready: the try statement around os.read: data, b'' or an early return
ReadOutcome(pending) ==
    CASE pending \in ChildChunks -> "data"
      [] pending \in {"eof", "error"} -> "empty"
      [] OTHER -> "return"

\* a read_ready that takes a zero-length read for "nothing to read"
ReadBranchEofIgnored(pending) ==
    CASE pending \in ChildChunks -> "feed"
      [] pending = "error" -> "shutdown"
      [] OTHER -> "return"

\* read_ready: which branch a read of the child descriptor takes
ReadBranch(pending) ==
    CASE ReadOutcome(pending) = "data" -> "feed"
      [] ReadOutcome(pending) = "empty" -> "shutdown"
      [] OTHER -> "return"

\* stream.feed(data): the interpreter calls mark_dirtied k times on this thread, each
\* a queue_action(self.update_screen); a wakeup that raises ends run()
Feed(k) ==
    LET room == PipeCap - wakeup_pipe
        puts == IF k <= room THEN k ELSE room + 1
        new == [i \in 1..puts |-> [id |-> next_id + i - 1, fn |-> "update_screen", args |-> <<>>]]
    IN  /\ fed' = fed + 1
        /\ action_queue' = action_queue \o new
        /\ put_log' = put_log \o [i \in 1..puts |-> next_id + i - 1]
        /\ next_id' = next_id + puts
        /\ dirty_batches' = IF puts > 0 /\ PendingFlushes(action_queue) = 0
                            THEN dirty_batches + 1 ELSE dirty_batches
        /\ wakeup_pipe' = Min(wakeup_pipe + puts, PipeCap)
        /\ wakeup_raised' = (wakeup_raised \/ k > room)
        /\ pc' = IF k > room THEN "crashed" ELSE pc

ReadReady ==
    /\ pc = "service"
    /\ ready # <<>>
    /\ Head(ready) = "child"
    /\ ready' = Tail(ready)
    /\ IF ReadGuard(shutting_down) \/ ReadBranch(child_pending) = "return"
       THEN /\ child_pending' = IF ReadGuard(shutting_down) THEN child_pending ELSE "none"
            /\ NoShutdown
            /\ UNCHANGED <<pc, action_queue, put_log, next_id, dirty_batches, fed,
                           fed_log, wakeup_pipe, wakeup_raised>>
       ELSE IF ReadBranch(child_pending) = "shutdown"
       THEN /\ Shutdown(child_pending)
            /\ UNCHANGED <<pc, child_pending, action_queue, put_log, next_id,
                           dirty_batches, fed, fed_log, wakeup_pipe, wakeup_raised>>
       ELSE /\ \E k \in 0..MaxMarks : Feed(k)
            /\ fed_log' = Append(fed_log, ReadData(child_pending))
            /\ child_pending' = "none"
            /\ NoShutdown
    /\ UNCHANGED <<wready, attempt, write_buf, signal_pipe, in_wakeup, resizes,
                   flush_count, hist_io, executed, left_after_drain, hist_iter,
                   events, res, spur, sig_read, optv, titlev,
                   colorv>>

\* signal_received
SignalReceived ==
    /\ pc = "service"
    /\ ready # <<>>
    /\ Head(ready) = "signal"
    /\ ready' = Tail(ready)
    /\ LET data == Take(signal_pipe, SignalReadSize)
       IN  /\ signal_pipe' = Drop(signal_pipe, SignalReadSize)
           /\ sig_read' = Append(sig_read, data)
           /\ signal_spurious' = FALSE
           /\ IF data # <<>> /\ IsTermination(data)
              THEN Shutdown("signal")
              ELSE NoShutdown
    /\ UNCHANGED <<pc, wready, attempt, write_buf, action_queue, wakeup_pipe,
                   child_pending, prod, resizes, flush_count, fed, hist_io, hist_act,
                   hist_pipe, hist_iter, events, res, fed_log,
                   optv, titlev, colorv>>

\* on_wakeup, the read of the wakeup pipe
OnWakeupRead ==
    /\ pc = "service"
    /\ ready # <<>>
    /\ Head(ready) = "wakeup"
    /\ ready' = Tail(ready)
    /\ wakeup_pipe' = DrainWakeup(wakeup_pipe)
    /\ left_after_drain' = DrainWakeup(wakeup_pipe)
    /\ pc' = "actions"
    /\ UNCHANGED <<wready, attempt, sess, signal_pipe, child_pending, prod, ext,
                   hist_io, hist_act, wakeup_raised, hist_iter, hist_env,
                   res, spur, hist_read, optv, titlev, colorv>>

\* on_wakeup, one turn of the while loop: get_nowait and func(*args), or break
OnWakeupStep ==
    /\ pc = "actions"
    /\ IF KeepDraining(shutting_down) /\ action_queue # <<>>
       THEN LET a == NextAction(action_queue)
                w == a.fn = "queue_write"
            IN  /\ action_queue' = RestActions(action_queue)
                /\ executed' = Append(executed, a.id)
                /\ write_buf' = IF w THEN queue_write(write_buf, a.args) ELSE write_buf
                /\ enq_log' = IF w THEN enq_log \o a.args ELSE enq_log
                /\ fresh' = IF w THEN fresh + Len(a.args) ELSE fresh
                /\ resizes' = IF a.fn = "resize_screen"
                              THEN Append(resizes, a.args) ELSE resizes
                /\ flush_count' = IF a.fn = "update_screen"
                                  THEN flush_count + 1 ELSE flush_count
                /\ post_empty' = IF a.fn = "update_screen"
                                 THEN post_empty + 1 ELSE post_empty
                /\ applied_opts' = IF a.fn = "apply_opts_to_screen"
                                   THEN Append(applied_opts, opts) ELSE applied_opts
                /\ pc' = pc
       ELSE /\ pc' = "service"
            /\ UNCHANGED <<action_queue, executed, write_buf, enq_log, fresh, resizes,
                           flush_count, post_empty, applied_opts>>
    /\ UNCHANGED <<ready, wready, attempt, shutting_down, fds, prod, close_requested,
                   fed, child_recv, write_log, put_log, dirty_batches, hist_pipe,
                   started_empty, registered, iter_writes, wrote_fresh, hist_env,
                   res, spur, hist_read, opts, opts_log, titlev,
                   colorv>>

\* run: every ready reader was serviced; if writers: self.write_ready()
ServiceDone ==
    /\ pc = "service"
    /\ ready = <<>>
    /\ pc' = IF wready THEN "write" ELSE "select"
    /\ attempt' = 0
    /\ UNCHANGED <<ready, wready, sess, fds, prod, ext, hist_io, hist_act, hist_pipe,
                   hist_iter, hist_env, res, spur, hist_read, optv,
                   titlev, colorv>>

\* write_ready: the guard, or one turn of the while loop in which os.write
\* accepts n bytes
WriteReady ==
    /\ pc = "write"
    /\ IF ~WriteGuard(shutting_down) \/ write_buf = <<>>
       THEN /\ pc' = "select"
            /\ UNCHANGED <<attempt, write_buf, hist_io, iter_writes, fresh, wrote_fresh>>
       ELSE \E n \in 0..Len(write_buf) :
            /\ attempt' = attempt + 1
            /\ iter_writes' = iter_writes + 1
            /\ pc' = IF n = 0 THEN "select" ELSE pc
            /\ write_buf' = IF n = 0 THEN write_buf ELSE WriteRest(write_buf, n)
            /\ child_recv' = child_recv \o Take(write_buf, n)
            /\ write_log' = IF n = 0 THEN write_log
                            ELSE Append(write_log, [len |-> Len(write_buf), n |-> n,
                                                    attempt |-> attempt + 1])
            /\ wrote_fresh' = (wrote_fresh \/ n > Len(write_buf) - fresh)
            /\ fresh' = Min(fresh, Len(write_buf) - n)
            /\ enq_log' = enq_log
    /\ UNCHANGED <<ready, wready, shutting_down, action_queue, fds, prod, ext, hist_act,
                   hist_pipe, started_empty, registered, hist_env,
                   res, spur, hist_read, optv, titlev, colorv>>

\* write_ready: os.write raises (the descriptor would block, or failed); nothing
\* in run() catches it
WriteRaises ==
    /\ pc = "write"
    /\ WriteGuard(shutting_down)
    /\ write_buf # <<>>
    /\ pc' = "crashed"
    /\ attempt' = attempt + 1
    /\ iter_writes' = iter_writes + 1
    /\ UNCHANGED <<ready, wready, sess, fds, prod, ext, hist_io, hist_act, hist_pipe,
                   started_empty, registered, fresh, wrote_fresh, hist_env,
                   res, spur, hist_read, optv, titlev, colorv>>

Next ==
    \/ OnWindowResize
    \/ WriteToChild
    \/ ProducerWakeup
    \/ ChildOutput
    \/ \E s \in DeliverableSignals : SignalDelivered(s)
    \/ Select
    \/ LoopExit
    \/ ReadReady
    \/ SignalReceived
    \/ OnWakeupRead
    \/ OnWakeupStep
    \/ ServiceDone
    \/ WriteReady
    \/ WriteRaises

Spec == Init /\ [][Next]_vars

\* a step of the control thread
Control ==
    \/ Select
    \/ LoopExit
    \/ ReadReady
    \/ SignalReceived
    \/ OnWakeupRead
    \/ OnWakeupStep
    \/ ServiceDone
    \/ WriteReady
    \/ WriteRaises

\* the control thread and every producer thread keep being scheduled
FairSpec == Spec /\ WF_vars(Control) /\ WF_vars(ProducerWakeup)

\* the session with the ready sources of an iteration serviced in any order; the two
\* ways into shutdown() are a zero-length read and SIGTERM
NextAnyOrder ==
    \/ WriteToChild
    \/ ProducerWakeup
    \/ ChildOutputPlain
    \/ SignalDelivered(SIGTERM)
    \/ SelectAnyOrder
    \/ LoopExit
    \/ ReadReady
    \/ SignalReceived
    \/ OnWakeupRead
    \/ OnWakeupStep
    \/ ServiceDone
    \/ WriteReady
    \/ WriteRaises

SpecAnyOrder == Init /\ [][NextAnyOrder]_vars

\* the read side alone: what the child descriptor and the signal pipe deliver, and
\* the loop that reads them; the child sends two different chunks
NextRead ==
    \/ ChildOutputAny
    \/ SignalSpurious
    \/ \E s \in DeliverableSignals : SignalDelivered(s)
    \/ SelectAnyOrder
    \/ LoopExit
    \/ ReadReady
    \/ SignalReceived
    \/ OnWakeupRead
    \/ OnWakeupStep
    \/ ServiceDone

SpecRead == Init /\ [][NextRead]_vars

\* configuration reloads and window resizes submitted by other threads, and the
\* loop that executes them
NextOpts ==
    \/ ApplyOpts
    \/ OnWindowResize
    \/ ProducerWakeup
    \/ Select
    \/ OnWakeupRead
    \/ OnWakeupStep
    \/ ServiceDone

SpecOpts == Init /\ [][NextOpts]_vars

\* title changes made on the control thread against render() on the window's thread
NextTitle ==
    \/ TitleChanged
    \/ RenderCheck
    \/ RenderSetTitle
    \/ RenderReset

SpecTitle == Init /\ [][NextTitle]_vars

\* two sessions that receive palette changes and execute their change_colors actions
NextColors ==
    \/ \E s \in Sessions, w \in Slots, v \in ColorValues : ChangeDefaultColor(s, w, v)
    \/ \E s \in Sessions : ChangeColors(s)

SpecColors == Init /\ [][NextColors]_vars

\* the wakeup pipe alone: threads that call wakeup(), the loop that drains it
NextPipe ==
    \/ WakeupCall
    \/ SignalDelivered(SIGTERM)
    \/ Select
    \/ LoopExit
    \/ SignalReceived
    \/ OnWakeupRead
    \/ OnWakeupStep
    \/ ServiceDone

SpecPipe == Init /\ [][NextPipe]_vars


\* ------------------------------------------------------------------ claims

\* C1: the bytes the child has accepted, followed by the bytes still in write_buf,
\* are the concatenation of the data given to queue_write so far: nothing is lost,
\* duplicated or reordered, whatever each os.write accepts.
C1_ByteConservation == child_recv \o write_buf = enq_log

\* a partial write that split the data of one queue_write, the rest still buffered
C1_Witness ==
    /\ child_recv = <<"A">>
    /\ write_buf = <<"B", "C">>
    /\ Len(write_log) = 1

\* C2: the actions on_wakeup has executed are a prefix of the actions in the order
\* they were put on action_queue, and none was executed twice.
C2_ActionFifo ==
    /\ Len(executed) <= Len(put_log)
    /\ executed = SubSeq(put_log, 1, Len(executed))
    /\ \A i, j \in 1..Len(executed) : i # j => executed[i] # executed[j]

\* two actions executed in order while a third is still queued
C2_Witness ==
    /\ Len(executed) = 2
    /\ Len(put_log) = 3
    /\ action_queue # <<>>

\* C3: mark_dirtied calls made while an update_screen is already pending add no
\* further flush: update_screen runs at most once per batch of dirty marks.
C3_DirtyCoalescing == flush_count <= dirty_batches

\* C4: once shutting_down is set it stays set, and on_wakeup executes no action
\* from then on, whether queued before or after.
C4_ShutdownTerminal ==
    [][shutting_down => (shutting_down' /\ executed' = executed)]_vars

\* on_wakeup runs after shutdown() in the same iteration, with actions queued
C4_Witness ==
    /\ shutting_down
    /\ pc = "actions"
    /\ action_queue # <<>>

\* C5: a zero-length read of the child and a SIGINT or SIGTERM read from the signal
\* pipe, in a running session, have the same effect: shutting_down is set, the window
\* is asked to close and is woken once, write_buf, action_queue and what the actions
\* have done so far stay as they are; and with shutting_down set the loop leaves the
\* readiness wait only by ending.
C5_EofRead ==
    /\ pc = "service" /\ ready # <<>> /\ Head(ready) = "child"
    /\ ~shutting_down
    /\ child_pending = "eof"
    /\ ready' # ready

C5_TermSignalRead ==
    /\ pc = "service" /\ ready # <<>> /\ Head(ready) = "signal"
    /\ ~shutting_down
    /\ IsTermination(Take(signal_pipe, SignalReadSize))
    /\ ready' # ready

C5_ShutdownEffect ==
    /\ shutting_down'
    /\ close_requested'
    /\ post_empty' = post_empty + 1
    /\ UNCHANGED <<pc, write_buf, action_queue, wakeup_pipe, resizes, flush_count, fed>>

C5_EofEquivSignal ==
    [][/\ (C5_EofRead \/ C5_TermSignalRead) => C5_ShutdownEffect
       /\ (shutting_down /\ pc = "select" /\ pc' # pc) => pc' = "stopped"]_vars

\* the loop has ended after a zero-length read, with work left behind
C5_Witness ==
    /\ pc = "stopped"
    /\ shutdown_causes = <<"eof">>
    /\ close_requested
    /\ action_queue # <<>>

\* the loop has ended after a termination signal, with work left behind
C5_WitnessSignal ==
    /\ pc = "stopped"
    /\ shutdown_causes = <<"signal">>
    /\ close_requested
    /\ action_queue # <<>>

QueuedIds == {action_queue[i].id : i \in 1..Len(action_queue)}
ExecutedIds == {executed[i] : i \in 1..Len(executed)}
C6_EventuallyExecuted ==
    \A a \in 1..(MaxEvents + MaxMarks) :
        (a \in QueuedIds) ~> (a \in ExecutedIds \/ shutting_down \/ pc = "crashed")

\* the same without the exception: every queued action is executed or the session
\* enters shutting_down
C6_EventuallyExecutedStrict ==
    \A a \in 1..(MaxEvents + MaxMarks) :
        (a \in QueuedIds) ~> (a \in ExecutedIds \/ shutting_down)

C7_Backpressure ==
    /\ registered <=> ~started_empty
    /\ started_empty => (iter_writes = 0 /\ pc # "write")
    /\ ~wrote_fresh

\* C7, amended: ... and no byte enqueued during an iteration that started with an
\* empty write_buf is written in that iteration.
C7_BackpressureStartedEmpty ==
    /\ registered <=> ~started_empty
    /\ started_empty => (iter_writes = 0 /\ pc # "write")
    /\ started_empty => ~wrote_fresh

\* an iteration that started with an empty write_buf has enqueued bytes and ended
C7_Witness ==
    /\ pc = "select"
    /\ started_empty
    /\ fresh > 0
    /\ write_buf # <<>>

\* C8: with resize (100, 40), write AB and write C executed before the first write,
\* and a child that accepts 2 bytes and then 1 byte, the resize is applied once, both
\* accepted writes are the first write of their write-readiness event (C arrives in
\* a second event) and write_buf is empty afterwards.
C8_OneWritePerEvent ==
    (/\ Len(executed) = 3
     /\ enq_log = <<"A", "B", "C">>
     /\ Len(write_log) = 2
     /\ write_log[1].len = 3 /\ write_log[1].n = 2
     /\ write_log[2].n = 1)
    => (/\ resizes = <<(<<100, 40>>)>>
        /\ write_log[1].attempt = 1
        /\ write_log[2].attempt = 1
        /\ write_buf = <<>>)

\* C9: no call of wakeup() raises, however many markers the pipe holds.
C9_WakeupNeverRaises == ~wakeup_raised

\* C10: the drain at the start of on_wakeup leaves no marker in the pipe.
C10_DrainComplete == left_after_drain = 0


\* C11: from a state with shutting_down set, no step writes to the child (no os.write
\* is attempted, the child accepts no byte) and no step feeds the interpreter, in
\* whatever order the ready sources of the iteration are serviced.
C11_QuietAfterShutdown ==
    [][shutting_down => /\ child_recv' = child_recv
                        /\ iter_writes' = iter_writes
                        /\ fed' = fed]_vars

\* shutdown() came from the signal pipe, and in the same iteration read_ready is
\* still to run with child output waiting and write_ready with bytes to write
C11_Witness ==
    /\ shutting_down
    /\ pc = "service"
    /\ ready # <<>> /\ Head(ready) = "child"
    /\ child_pending = "data"
    /\ wready
    /\ write_buf # <<>>


\* C14: a write attempt of write_ready that the child does not accept (a zero-byte
\* result or a would-block error, on the first or on the second attempt of the
\* call) leaves write_buf unchanged and the control thread inside the loop.
C14_WouldBlockHandled ==
    [][(pc = "write" /\ iter_writes' = iter_writes + 1 /\ child_recv' = child_recv)
         => (write_buf' = write_buf /\ pc' \in {"write", "select"})]_vars


\* the lifecycle state of the session: run() has ended, or the flag is set, or
\* the loop is running
Life ==
    IF pc \in {"stopped", "crashed"} THEN "stopped"
    ELSE IF shutting_down THEN "shutting_down"
    ELSE "running"

\* C12: the lifecycle moves only running -> shutting_down -> stopped; with
\* shutting_down set the loop enters no further readiness wait; and once run() has
\* ended the control thread changes no session state.
C12_LifecycleOneWay ==
    [][/\ \/ Life' = Life
          \/ Life = "running" /\ Life' = "shutting_down"
          \/ Life = "shutting_down" /\ Life' = "stopped"
       /\ (shutting_down /\ pc = "select") => pc' \in {"select", "stopped"}
       /\ Life = "stopped" =>
            /\ UNCHANGED <<pc, shutting_down, write_buf, child_recv, fed, executed,
                           resizes, flush_count, close_requested, post_empty>>
            /\ wakeup_pipe' >= wakeup_pipe]_vars


\* C13: every descriptor the session holds has been released exactly once when
\* run() has returned, and not at all while the loop is running.
C13_ReleasedOnce ==
    \A fd \in OwnedFds : closed[fd] = IF pc = "stopped" THEN 1 ELSE 0


\* a step of read_ready that got past the shutting_down guard
C15_ReadStep ==
    /\ pc = "service"
    /\ ready # <<>> /\ Head(ready) = "child"
    /\ ready' = Tail(ready)
    /\ ~shutting_down

\* C15: in read_ready, a read that would block changes nothing; a read that fails
\* otherwise or returns no byte calls shutdown() and feeds nothing; a read that
\* returns bytes feeds exactly these bytes, once, and does not call shutdown().
C15_ReadOutcomes ==
    [][C15_ReadStep =>
         CASE child_pending = "block" ->
                UNCHANGED <<pc, sess, wakeup_pipe, signal_pipe, prod, ext, hist_io,
                            hist_act, hist_pipe, hist_read, shutdown_causes>>
           [] child_pending \in {"eof", "error"} ->
                /\ shutting_down' /\ close_requested'
                /\ post_empty' = post_empty + 1
                /\ Len(shutdown_causes') = Len(shutdown_causes) + 1
                /\ UNCHANGED <<fed, fed_log, write_buf, action_queue>>
           [] child_pending = "data" ->
                /\ fed' = fed + 1 /\ fed_log' = Append(fed_log, <<"x">>)
                /\ UNCHANGED <<shutting_down, close_requested, shutdown_causes>>
           [] child_pending = "data2" ->
                /\ fed' = fed + 1 /\ fed_log' = Append(fed_log, <<"y", "z">>)
                /\ UNCHANGED <<shutting_down, close_requested, shutdown_causes>>]_vars

\* the three outcomes have happened in one run, all three events being reads of the
\* child descriptor: a chunk was fed, a read would have blocked and changed nothing,
\* and the last read failed and shut down
C15_Witness ==
    /\ fed_log = <<(<<"y", "z">>)>>
    /\ shutdown_causes = <<"error">>
    /\ events = 3
    /\ child_pending = "error"
    /\ sig_read = <<>> /\ signal_pipe = <<>>


\* a step of signal_received
C16_SignalStep ==
    /\ pc = "service"
    /\ ready # <<>> /\ Head(ready) = "signal"
    /\ ready' = Tail(ready)

\* C16: the delivery of a signal changes nothing but the signal pipe; shutdown()
\* is called for a signal only by signal_received, and only when the bytes it read
\* include SIGINT or SIGTERM; a read that would block, or that returns only other
\* signal numbers, leaves the session state unchanged.
C16_SignalsViaRead ==
    [][/\ Len(signal_pipe') > Len(signal_pipe) =>
            UNCHANGED <<ctl, sess, wakeup_pipe, child_pending, prod, ext, hist_io,
                        hist_act, hist_read, shutdown_causes>>
       /\ C16_SignalStep =>
            IF \E i \in 1..Len(signal_pipe) : signal_pipe[i] \in {2, 15}
            THEN /\ shutting_down'
                 /\ shutdown_causes' = Append(shutdown_causes, "signal")
            ELSE UNCHANGED <<pc, sess, wakeup_pipe, child_pending, prod, ext, hist_io,
                             hist_act, fed_log, shutdown_causes>>
       /\ shutdown_causes' # shutdown_causes
          /\ shutdown_causes'[Len(shutdown_causes')] = "signal" =>
            /\ C16_SignalStep
            /\ \E i \in 1..Len(signal_pipe) : signal_pipe[i] \in {2, 15}]_vars

\* signal_received ran three times: the first read would have blocked, the second
\* returned another signal number, and only the third, which returned SIGTERM,
\* called shutdown()
C16_Witness ==
    /\ sig_read = <<(<<>>), (<<28>>), (<<15>>)>>
    /\ shutdown_causes = <<"signal">>
    /\ shutting_down


\* C19: every apply_opts_to_screen execution applies the options given to the
\* apply_opts call that queued it: the options applied so far are, in order, the
\* arguments of the first apply_opts calls.
C19_ArgsCaptured ==
    /\ Len(applied_opts) <= Len(opts_log)
    /\ \A i \in 1..Len(applied_opts) : applied_opts[i] = opts_log[i]


\* C17: once a render() call has returned after the last title_changed call, the
\* window title is the title given in that last call.
C17_TitleLastWriteWins ==
    (render_completed /\ last_title # "None") => window_title = last_title


\* C18: when a session has executed every change_colors action it queued, each slot
\* requested for it is set on its grid to the last value requested, no (slot, value)
\* was applied that was not requested for this session, and its pending dict is empty.
C18_PaletteCoalescing ==
    \A s \in Sessions :
        /\ applied_colors[s] \subseteq requested[s]
        /\ (color_queue[s] = 0 /\ requested[s] # {}) =>
              /\ \A w \in Slots : last_req[s][w] # "-" => grid_colors[s][w] = last_req[s][w]
              /\ Pending(s) = EmptyDict

\* C20: a step that is neither a call on session s nor an action of s leaves the
\* pending_color_changes that s observes unchanged, and what a change_colors of s
\* newly applies was requested on s.
C20_SessionIsolation ==
    [][\A s \in Sessions :
         /\ (requested'[s] = requested[s] /\ color_queue'[s] = color_queue[s])
               => Pending(s)' = Pending(s)
         /\ (applied_colors'[s] \ applied_colors[s]) \subseteq requested[s]]_vars

====
